---- MODULE Spec2Model ----
(***************************************************************************)
(* Model of src/voice.py: the debt-collection voice service.               *)
(*                                                                         *)
(* Every endpoint is an `async def` whose outbound calls are blocking      *)
(* (requests, the HubSpot and Twilio clients); the coroutines it awaits    *)
(* never suspend, so on the single event loop started by uvicorn.run each  *)
(* request handler runs to completion before the next one starts.  One     *)
(* action therefore models one whole request, and the next request is      *)
(* taken up once the response of this one has been sent.  The CRM, the     *)
(* voice provider, the telephony provider, the file system and the wall    *)
(* clock are the environment: their answers are chosen with \E.            *)
(*                                                                         *)
(* Strings of the program that are inspected piece by piece (customer      *)
(* names and the other fields of a contact: strip, truthiness, the         *)
(* composed message) are sequences of tokens; identifiers handed out by    *)
(* the providers are TLA+ strings.                                         *)
(***************************************************************************)
EXTENDS Integers, Sequences, FiniteSets, TLC

\* ------------------------------------------------------------------ bounds
MaxSessions == 2    \* voice sessions the voice provider will create
MaxCalls    == 1    \* telephony calls the telephony provider will place
MaxClock    == 1    \* the wall clock (seconds) runs over 0..MaxClock

\* ------------------------------------------------------- values of Python
None  == "<None>"                 \* Python's None
EmptyStr == ""                    \* the empty str, for identifiers and URLs

DESTINATION_PHONE_NUMBER == "+918919025218"
DEFAULT_BANK_NAME == "Example Bank"
DEFAULT_PAYMENT_LINK == "https://example.com/payment"
AGENT_NAME == "Yaswanth"

\* customer names a request can carry
Names == { <<>>, <<"a">>, <<" ", "a">>, <<"b">> }

\* str.strip(): drop leading and trailing whitespace
RECURSIVE LStrip(_)
LStrip(s) == IF s # <<>> /\ Head(s) = " " THEN LStrip(Tail(s)) ELSE s

RECURSIVE RStrip(_)
RStrip(s) == IF s # <<>> /\ s[Len(s)] = " " THEN RStrip(SubSeq(s, 1, Len(s) - 1)) ELSE s

Strip(s) == RStrip(LStrip(s))

\* ------------------------------------------- results of calls that may raise
\* exc is "none" (normal return), "HTTPException" (with status_code) or
\* "Exception" (any other subclass of Exception).
Return(v)        == [exc |-> "none", status_code |-> 0, value |-> v]
RaiseHTTP(code, detail) == [exc |-> "HTTPException", status_code |-> code, value |-> detail]
RaiseOther       == [exc |-> "Exception", status_code |-> 0, value |-> None]
Raised(r)        == r.exc # "none"

\* ------------------------------------------------------ CRM property maps
\* A value of the raw property mapping: a str (a sequence of tokens), None
\* (the CRM holds no value for the property) or no entry at all.
Str(s)   == [kind |-> "str", s |-> s]
NoneV    == [kind |-> "none", s |-> <<>>]
AbsentV  == [kind |-> "absent", s |-> <<>>]

\* the properties the search asks for
Properties == { "bank_name", "customer_name", "loan_type", "outstanding_amount",
                "missed_emi_count", "emi_amount", "due_date", "proposed_months",
                "amount", "months", "phone_number", "call_status",
                "number_of_call_attempts", "call_lifted_time", "secure_payment_link",
                "preferred_callback_time", "dpd_days", "date" }

\* dict.get(key, default): the default only when the key is absent
Get(d, key, default) == IF d[key].kind = "absent" THEN default ELSE d[key]

\* how an f-string renders a value
Format(v) == IF v.kind = "none" THEN <<"None">> ELSE v.s

\* datetime.now().strftime("%Y-%m-%d") for a clock counting seconds
StrfDate(now) == <<ToString(now \div 86400)>>

\* datetime.now().strftime("%Y%m%d_%H%M%S"): second resolution
StrfTimestamp(now) == ToString(now)

_build_main_message(contact_data) ==
    LET customer_name       == Get(contact_data, "customer_name", Str(<<>>))
        bank_name           == Get(contact_data, "bank_name", Str(<<DEFAULT_BANK_NAME>>))
        loan_type           == Get(contact_data, "loan_type", Str(<<>>))
        outstanding_amount  == Get(contact_data, "outstanding_amount", Str(<<>>))
        missed_emi_count    == Get(contact_data, "missed_emi_count", Str(<<>>))
        emi_amount          == Get(contact_data, "emi_amount", Str(<<>>))
        dpd_days            == Get(contact_data, "dpd_days", Str(<<>>))
        due_date            == Get(contact_data, "due_date", Str(<<>>))
        secure_payment_link == Get(contact_data, "secure_payment_link", Str(<<DEFAULT_PAYMENT_LINK>>))
    IN  <<"Hello ">> \o Format(customer_name) \o <<", this is ">> \o Format(bank_name)
        \o <<" regarding your ">> \o Format(loan_type)
        \o <<". Your outstanding balance is ">> \o Format(outstanding_amount)
        \o <<" rupees. You have missed ">> \o Format(missed_emi_count)
        \o <<" EMI payments of ">> \o Format(emi_amount)
        \o <<" rupees each. Your account is ">> \o Format(dpd_days)
        \o <<" days past due as of ">> \o Format(due_date)
        \o <<". Please make a payment today via our mobile app at ">>
        \o Format(secure_payment_link) \o <<".">>

\* The keyword arguments handed to ContactResponse(...), before validation.
ContactResponseArgs(contact_data, now) ==
    [ customer_name           |-> Str(Strip(Get(contact_data, "customer_name", Str(<<>>)).s)),
      phone_number            |-> Get(contact_data, "phone_number", Str(<<DESTINATION_PHONE_NUMBER>>)),
      loan_type               |-> Get(contact_data, "loan_type", Str(<<>>)),
      outstanding_amount      |-> Get(contact_data, "outstanding_amount", Str(<<>>)),
      missed_emi_count        |-> Get(contact_data, "missed_emi_count", Str(<<>>)),
      emi_amount              |-> Get(contact_data, "emi_amount", Str(<<>>)),
      due_date                |-> Get(contact_data, "due_date", Str(<<>>)),
      dpd_days                |-> Get(contact_data, "dpd_days", Str(<<>>)),
      bank_name               |-> Get(contact_data, "bank_name", Str(<<DEFAULT_BANK_NAME>>)),
      proposed_months         |-> Get(contact_data, "proposed_months", Str(<<>>)),
      amount                  |-> Get(contact_data, "amount", Str(<<>>)),
      months                  |-> Get(contact_data, "months", Str(<<>>)),
      call_status             |-> Get(contact_data, "call_status", Str(<<>>)),
      number_of_call_attempts |-> Get(contact_data, "number_of_call_attempts", Str(<<>>)),
      call_lifted_time        |-> Get(contact_data, "call_lifted_time", Str(<<>>)),
      secure_payment_link     |-> Get(contact_data, "secure_payment_link", Str(<<DEFAULT_PAYMENT_LINK>>)),
      preferred_callback_time |-> Get(contact_data, "preferred_callback_time", Str(<<>>)),
      main_message            |-> Str(_build_main_message(contact_data)),
      date                    |-> Str(StrfDate(now)),
      agent_name              |-> Str(<<AGENT_NAME>>) ]

\* ContactResponse: every field is declared `str`; pydantic rejects None.
ContactResponse(args) ==
    IF \A f \in DOMAIN args : args[f].kind = "str"
    THEN Return([f \in DOMAIN args |-> args[f].s])
    ELSE RaiseOther                                   \* ValidationError

\* CustomerData.create_response_object
create_response_object(contact_data, now) ==
    IF Get(contact_data, "customer_name", Str(<<>>)).kind = "none"
    THEN RaiseOther                                   \* None.strip(): AttributeError
    ELSE ContactResponse(ContactResponseArgs(contact_data, now))

\* What the CRM search API answers: it fails, or it returns the list of
\* matching records (at most one: limit=1).
CrmError == [kind |-> "error", results |-> <<>>]
CrmResults(rs) == [kind |-> "ok", results |-> rs]

\* HubSpotService.fetch_contact, the body of its try block
fetch_contact_try(customer_name, api_response) ==
    IF api_response.kind = "error" THEN RaiseOther       \* do_search raised
    ELSE IF api_response.results = <<>> THEN RaiseHTTP(404, "No contact found")
    ELSE Return(api_response.results[1])

\* ------------------------------------------------------------ environment
\* identifiers the providers hand out
VoiceId(n)  == "v" \o ToString(n)
CallSidOf(n) == "CA" \o ToString(n)
JoinUrlOf(id) == "wss://join/" \o id

\* Python truthiness of a str-or-None identifier: `not x`
Falsy(x) == x = None \/ x = EmptyStr

\* The program state a request works on is threaded through the calls it
\* makes: the three module globals, the files, and the trace of the outbound
\* operations performed so far by this request (operation, argument, answer).
Outbound(op, arg, res) == [op |-> op, arg |-> arg, res |-> res]

\* What the voice provider answers to POST /api/calls: a failure (connection
\* error or non-2xx status, raised by raise_for_status), or the JSON of the
\* session it created.
VoiceError == [kind |-> "error", callId |-> None, joinUrl |-> None]
VoiceCreated(callId, joinUrl) == [kind |-> "ok", callId |-> callId, joinUrl |-> joinUrl]

\* SYSTEM_PROMPT.format(...): the five substituted fields of the script
FormatPrompt(customer_data) ==
    [ agent_name              |-> customer_data.agent_name,
      bank_name               |-> customer_data.bank_name,
      customer_name           |-> customer_data.customer_name,
      main_message            |-> customer_data.main_message,
      preferred_callback_time |-> customer_data.preferred_callback_time ]

create_call_name_before_post(customer_data, st, voice) ==
    LET formatted_prompt == FormatPrompt(customer_data)
        sent == [st EXCEPT !.trace = Append(@, Outbound("voice.create", formatted_prompt.customer_name, voice)),
                           !.transcription_customer_name = customer_data.customer_name]
    IN  IF voice.kind = "error"
        THEN [r |-> RaiseHTTP(500, "Failed to create voice call"), st |-> sent]
        ELSE [r  |-> Return([callId |-> voice.callId, joinUrl |-> voice.joinUrl]),
              st |-> [sent EXCEPT !.voice_call_id = voice.callId]]

create_call_keeps_first_name(customer_data, st, voice) ==
    LET formatted_prompt == FormatPrompt(customer_data)
        sent == [st EXCEPT !.trace = Append(@, Outbound("voice.create", formatted_prompt.customer_name, voice))]
    IN  IF voice.kind = "error"
        THEN [r |-> RaiseHTTP(500, "Failed to create voice call"), st |-> sent]
        ELSE [r  |-> Return([callId |-> voice.callId, joinUrl |-> voice.joinUrl]),
              st |-> IF st.voice_call_id = EmptyStr
                     THEN [sent EXCEPT !.voice_call_id = voice.callId,
                                       !.transcription_customer_name = customer_data.customer_name]
                     ELSE [sent EXCEPT !.voice_call_id = voice.callId]]

create_call_id_only(customer_data, st, voice) ==
    LET formatted_prompt == FormatPrompt(customer_data)
        sent == [st EXCEPT !.trace = Append(@, Outbound("voice.create", formatted_prompt.customer_name, voice))]
    IN  IF voice.kind = "error"
        THEN [r |-> RaiseHTTP(500, "Failed to create voice call"), st |-> sent]
        ELSE [r  |-> Return([callId |-> voice.callId, joinUrl |-> voice.joinUrl]),
              st |-> [sent EXCEPT !.voice_call_id = voice.callId]]

create_call_first_wins(customer_data, st, voice) ==
    LET formatted_prompt == FormatPrompt(customer_data)
        sent == [st EXCEPT !.trace = Append(@, Outbound("voice.create", formatted_prompt.customer_name, voice))]
    IN  IF voice.kind = "error"
        THEN [r |-> RaiseHTTP(500, "Failed to create voice call"), st |-> sent]
        ELSE [r  |-> Return([callId |-> voice.callId, joinUrl |-> voice.joinUrl]),
              st |-> IF st.voice_call_id = EmptyStr
                     THEN [sent EXCEPT !.voice_call_id = voice.callId,
                                       !.transcription_customer_name = customer_data.customer_name]
                     ELSE sent]

\* VoiceService.create_call
create_call(customer_data, st, voice) ==
    LET formatted_prompt == FormatPrompt(customer_data)
        sent == [st EXCEPT !.trace = Append(@, Outbound("voice.create", formatted_prompt.customer_name, voice))]
    IN  IF voice.kind = "error"
        THEN [r |-> RaiseHTTP(500, "Failed to create voice call"), st |-> sent]
        ELSE [r  |-> Return([callId |-> voice.callId, joinUrl |-> voice.joinUrl]),
              st |-> [sent EXCEPT !.voice_call_id = voice.callId,
                                  !.transcription_customer_name = customer_data.customer_name]]

\* What the voice provider answers to GET /api/calls/{id}/messages: a
\* failure, or a JSON value.  `of` records whose conversation the value is.
\* The value is a JSON object ("dict"), array ("list") or string ("str");
\* results is what an object holds under "results": "missing" (no such key),
\* "empty" (no turn) or "turns" (at least one turn).
FetchError == [kind |-> "error", results |-> "missing", of |-> None]
Messages(kind, results, of) == [kind |-> kind, results |-> results, of |-> of]

\* VoiceService.fetch_transcript
fetch_transcript(call_id, st, fetched) ==
    LET sent == [st EXCEPT !.trace = Append(@, Outbound("voice.messages", call_id, fetched))]
    IN  IF fetched.kind = "error"
        THEN [r |-> RaiseHTTP(500, "Failed to fetch transcript"), st |-> sent]
        ELSE [r |-> Return(fetched), st |-> sent]

\* transcript.get("results"): raises when the value has no .get, None when
\* the key is missing, else the list of turns
GetResults(transcript) ==
    IF transcript.kind # "dict" THEN RaiseOther               \* AttributeError
    ELSE IF transcript.results = "missing" THEN Return(None)
    ELSE Return(transcript.results)

Truthy_not_None(results) == results # None

\* `if x:` for None or a list
Truthy(results) == results # None /\ results # "empty"

\* the name of a file in the conversations directory
FileName(customer_name, timestamp) == [customer_name |-> customer_name, timestamp |-> timestamp]

WriteFile(files, name, content) ==
    [f \in DOMAIN files \cup {name} |-> IF f = name THEN content ELSE files[f]]

\* open(name, 'w') empties the file; when the dump then fails the file holds
\* no transcript, whatever it held before
TruncateFile(files, name) == [f \in DOMAIN files \ {name} |-> files[f]]

\* VoiceService.save_conversations.  fs says which file-system operations
\* succeed: makedirs, open, and the dump into the opened file.
save_conversations(transcript, customer_name, st, fs, now) ==
    LET transcript_file_name == FileName(customer_name, StrfTimestamp(now))
        made   == [st EXCEPT !.trace = Append(@, Outbound("os.makedirs", "conversations", fs.makedirs))]
        opened == [made EXCEPT !.trace = Append(@, Outbound("open", transcript_file_name, fs.open))]
        dumped == [opened EXCEPT !.trace = Append(@, Outbound("json.dump", transcript_file_name, fs.dump))]
    IN  IF ~fs.makedirs THEN [r |-> RaiseOther, st |-> made]        \* outside the try
        ELSE IF ~fs.open THEN [r |-> Return(None), st |-> opened]   \* caught, printed
        ELSE IF ~fs.dump
             THEN [r  |-> Return(None),                              \* caught, printed
                   st |-> [dumped EXCEPT !.files = TruncateFile(@, transcript_file_name)]]
             ELSE [r  |-> Return(None),
                   st |-> [dumped EXCEPT !.files = WriteFile(@, transcript_file_name, transcript)]]

\* What the telephony provider answers to calls.create: a rejection, or the
\* call it placed.
TwilioError == [kind |-> "error", sid |-> None]
TwilioCall(sid) == [kind |-> "ok", sid |-> sid]

twilio_initiate_call_retries(join_url, phone_number, status_callback_url, st, placed) ==
    LET sent  == [st EXCEPT !.trace = Append(@, Outbound("twilio.create", join_url, placed))]
        again == [sent EXCEPT !.trace = Append(@, Outbound("twilio.create", join_url, placed))]
    IN  IF placed.kind = "error"
        THEN [r |-> RaiseHTTP(500, "Failed to initiate call"), st |-> again]
        ELSE [r |-> Return(placed.sid), st |-> [sent EXCEPT !.twilio_call_id = placed.sid]]

\* TwilioService.initiate_call
twilio_initiate_call(join_url, phone_number, status_callback_url, st, placed) ==
    LET sent == [st EXCEPT !.trace = Append(@, Outbound("twilio.create", join_url, placed))]
    IN  IF placed.kind = "error"
        THEN [r |-> RaiseHTTP(500, "Failed to initiate call"), st |-> sent]
        ELSE [r |-> Return(placed.sid), st |-> [sent EXCEPT !.twilio_call_id = placed.sid]]

\* TwilioService.end_call
twilio_end_call(call_sid, st, accepted) ==
    LET sent == [st EXCEPT !.trace = Append(@, Outbound("twilio.update", call_sid, accepted))]
    IN  IF accepted THEN [r |-> Return(call_sid), st |-> sent]
        ELSE [r |-> RaiseHTTP(500, "Failed to terminate call"), st |-> sent]

\* HubSpotService.fetch_contact: `except Exception` also catches the
\* HTTPException(404) raised inside the try block.
fetch_contact(customer_name, st, api_response) ==
    LET r    == fetch_contact_try(customer_name, api_response)
        sent == [st EXCEPT !.trace = Append(@, Outbound("crm.search", customer_name,
                      IF api_response.kind = "error" THEN "error"
                      ELSE IF api_response.results = <<>> THEN "empty" ELSE "found"))]
    IN  IF Raised(r) THEN [r |-> RaiseHTTP(500, "Failed to fetch HubSpot data"), st |-> sent]
        ELSE [r |-> r, st |-> sent]

\* ------------------------------------------------------------------ state
VARIABLES
    voice_call_id,                 \* module global, line 36
    twilio_call_id,                \* module global, line 37
    transcription_customer_name,   \* module global, line 38
    files,                         \* the conversations directory: file name -> the transcript it holds
    sessions,                      \* voice provider: session id -> what it was created with
    calls,                         \* telephony provider: call sid -> what it was placed with
    now,                           \* the wall clock, in seconds
    last_saved,                    \* the transcript saved last, if the event was that of a placed
                                   \* call: the file, and the CallSid of the event
    last                           \* the request just handled, until its response is sent:
                                   \* input, response, outbound operations

vars == <<voice_call_id, twilio_call_id, transcription_customer_name,
          files, sessions, calls, now, last_saved, last>>

globals == <<voice_call_id, twilio_call_id, transcription_customer_name>>

EmptyMap == [x \in {} |-> None]

\* no transcript has been saved yet, or the last by an event of no placed call
NothingSaved == [by |-> None, name |-> None]

\* the state a request starts from
Start == [ voice_call_id               |-> voice_call_id,
           twilio_call_id              |-> twilio_call_id,
           transcription_customer_name |-> transcription_customer_name,
           files                       |-> files,
           trace                       |-> <<>> ]

\* how the framework answers: a returned value is a 200, an HTTPException
\* its status code, any other exception a 500
Respond(r) ==
    IF r.exc = "none" THEN [code |-> 200, body |-> r.value]
    ELSE IF r.exc = "HTTPException" THEN [code |-> r.status_code, body |-> [detail |-> r.value]]
    ELSE [code |-> 500, body |-> [detail |-> "Internal Server Error"]]

\* no request is being answered
NoRequest == [op |-> "none", args |-> <<>>, code |-> 0, body |-> <<>>, exc |-> "none", trace |-> <<>>]
Idle == last = NoRequest

\* the request is finished: publish the globals and files it left, and
\* record what it was, what it answered and what it called
Finish(op, args, out) ==
    /\ voice_call_id' = out.st.voice_call_id
    /\ twilio_call_id' = out.st.twilio_call_id
    /\ transcription_customer_name' = out.st.transcription_customer_name
    /\ files' = out.st.files
    /\ last' = [op |-> op, args |-> args, code |-> Respond(out.r).code,
                body |-> Respond(out.r).body, exc |-> out.r.exc, trace |-> out.st.trace]

Init ==
    /\ voice_call_id = EmptyStr
    /\ twilio_call_id = EmptyStr
    /\ transcription_customer_name = <<>>
    /\ files = EmptyMap
    /\ sessions = EmptyMap
    /\ calls = EmptyMap
    /\ now = 0
    /\ last_saved = NothingSaved
    /\ last = NoRequest

\* ----------------------------------------------------------------- handlers
\* GET /fetch-contact
get_hubspot_contact(customer_name, st, api_response, t) ==
    IF customer_name = <<>>                                        \* not customer_name
    THEN [r |-> RaiseHTTP(400, "customer_name is required"), st |-> st]
    ELSE LET c == fetch_contact(customer_name, st, api_response)
         IN  IF Raised(c.r) THEN c
             ELSE [r |-> create_response_object(c.r.value, t), st |-> c.st]

STATUS_CALLBACK_URL == "https://1c2e-103-206-104-58.ngrok-free.app/call-status"

initiate_call_try_dials_anyway(customer_name, st, api_response, voice, placed, t) ==
    LET c == fetch_contact(customer_name, st, api_response)
    IN  IF Raised(c.r) THEN c
        ELSE
        LET customer_response == create_response_object(c.r.value, t)
        IN  IF Raised(customer_response) THEN [r |-> customer_response, st |-> c.st]
            ELSE
            LET v        == create_call(customer_response.value, c.st, voice)
                join_url == v.r.value.joinUrl
                call_id  == v.r.value.callId
            IN  IF Raised(v.r) THEN v
                ELSE
                LET p == twilio_initiate_call(join_url, customer_response.value.phone_number,
                                              STATUS_CALLBACK_URL, v.st, placed)
                IN  IF Raised(p.r) THEN p
                    ELSE [r  |-> Return([call_sid |-> p.r.value, join_url |-> join_url,
                                         call_id |-> call_id,
                                         message |-> <<"Call initiated successfully for ">> \o customer_name]),
                          st |-> p.st]

\* POST /initiate-call, the body of its try block
initiate_call_try(customer_name, st, api_response, voice, placed, t) ==
    LET c == fetch_contact(customer_name, st, api_response)
    IN  IF Raised(c.r) THEN c
        ELSE
        LET customer_response == create_response_object(c.r.value, t)
        IN  IF Raised(customer_response) THEN [r |-> customer_response, st |-> c.st]
            ELSE
            LET v        == create_call(customer_response.value, c.st, voice)
                join_url == v.r.value.joinUrl
                call_id  == v.r.value.callId
            IN  IF Raised(v.r) THEN v
                ELSE IF Falsy(join_url)
                THEN [r |-> RaiseHTTP(500, "Failed to get joinUrl from Voice call"), st |-> v.st]
                ELSE
                LET p == twilio_initiate_call(join_url, customer_response.value.phone_number,
                                              STATUS_CALLBACK_URL, v.st, placed)
                IN  IF Raised(p.r) THEN p
                    ELSE [r  |-> Return([call_sid |-> p.r.value, join_url |-> join_url,
                                         call_id |-> call_id,
                                         message |-> <<"Call initiated successfully for ">> \o customer_name]),
                          st |-> p.st]

initiate_call_rolls_back(customer_name, st, api_response, voice, placed, t) ==
    LET out == initiate_call_try(customer_name, st, api_response, voice, placed, t)
    IN  IF Raised(out.r)
        THEN [r  |-> RaiseHTTP(500, "Failed to initiate call"),
              st |-> [out.st EXCEPT !.voice_call_id = st.voice_call_id,
                                    !.transcription_customer_name = st.transcription_customer_name]]
        ELSE out

\* POST /initiate-call: HTTPException is re-raised, any other exception
\* becomes an HTTPException(500)
initiate_call(customer_name, st, api_response, voice, placed, t) ==
    LET out == initiate_call_try(customer_name, st, api_response, voice, placed, t)
    IN  IF out.r.exc = "Exception"
        THEN [r |-> RaiseHTTP(500, "Failed to initiate call"), st |-> out.st]
        ELSE out

\* POST /call-status, the branch taken for CallStatus == "completed"
completed_branch(st, fetched, fs, t) ==
    LET f == fetch_transcript(st.voice_call_id, st, fetched)
    IN  IF Raised(f.r) THEN f
        ELSE LET call_transcript == f.r.value
                 results         == GetResults(call_transcript)
             IN  IF Raised(results) THEN [r |-> results, st |-> f.st]
                 ELSE IF Truthy(results.value)
                 THEN save_conversations(call_transcript, f.st.transcription_customer_name,
                                         f.st, fs, t)
                 ELSE [r |-> Return(None), st |-> f.st]     \* "No conversation found"

StatusReceived == [message |-> "Status received", status |-> "ok"]

handle_call_status_try_own_call_only(CallSid, CallStatus, st, fetched, fs, t) ==
    IF CallStatus = "completed" /\ CallSid = st.twilio_call_id
    THEN LET done == completed_branch(st, fetched, fs, t)
         IN  IF Raised(done.r) THEN done ELSE [r |-> Return(StatusReceived), st |-> done.st]
    ELSE [r |-> Return(StatusReceived), st |-> st]

handle_call_status_try_failed_too(CallSid, CallStatus, st, fetched, fs, t) ==
    IF CallStatus \in {"completed", "failed"}
    THEN LET done == completed_branch(st, fetched, fs, t)
         IN  IF Raised(done.r) THEN done ELSE [r |-> Return(StatusReceived), st |-> done.st]
    ELSE [r |-> Return(StatusReceived), st |-> st]

\* POST /call-status, the body of its try block
handle_call_status_try(CallSid, CallStatus, st, fetched, fs, t) ==
    IF CallStatus = "completed"
    THEN LET done == completed_branch(st, fetched, fs, t)
         IN  IF Raised(done.r) THEN done ELSE [r |-> Return(StatusReceived), st |-> done.st]
    ELSE \* busy, no-answer, failed, answered: printed or logged; anything else: nothing
         [r |-> Return(StatusReceived), st |-> st]

ErrorProcessing(e) == [message |-> "Error processing status", error |-> e.exc]

handle_call_status_reraises_http(CallSid, CallStatus, st, fetched, fs, t) ==
    LET out == handle_call_status_try(CallSid, CallStatus, st, fetched, fs, t)
    IN  IF out.r.exc = "Exception"
        THEN [r |-> Return(ErrorProcessing(out.r)), st |-> out.st]
        ELSE out

\* POST /call-status: `except Exception` turns every exception into a payload
handle_call_status(CallSid, CallStatus, st, fetched, fs, t) ==
    LET out == handle_call_status_try(CallSid, CallStatus, st, fetched, fs, t)
    IN  IF Raised(out.r)
        THEN [r |-> Return(ErrorProcessing(out.r)), st |-> out.st]
        ELSE out

end_call_specific_reraises(call_sid, st, accepted) ==
    LET e == twilio_end_call(call_sid, st, accepted)
    IN  IF Raised(e.r) THEN e
        ELSE [r  |-> Return([message |-> "Call ended successfully"]), st |-> e.st]

\* POST /end-call/{call_sid}
end_call_specific(call_sid, st, accepted) ==
    LET e == twilio_end_call(call_sid, st, accepted)
    IN  IF Raised(e.r)
        THEN [r  |-> Return([message |-> "Error ending call", status |-> "error"]), st |-> e.st]
        ELSE [r  |-> Return([message |-> "Call ended successfully"]), st |-> e.st]

\* TranscriptResponse: call_id, transcript and message are declared `str`
TranscriptResponse(call_id, transcript, message) ==
    IF transcript.kind = "str"
    THEN Return([call_id |-> call_id, transcript |-> transcript, message |-> message])
    ELSE RaiseOther                                               \* ValidationError

\* GET /fetch-transcript/{call_id}
get_call_transcript(call_id, st, fetched) ==
    LET f == fetch_transcript(call_id, st, fetched)
    IN  IF Raised(f.r) THEN f
        ELSE LET resp == TranscriptResponse(call_id, f.r.value, "Transcript fetched successfully")
             IN  IF resp.exc = "Exception"
                 THEN [r |-> RaiseHTTP(500, "Failed to fetch transcript"), st |-> f.st]
                 ELSE [r |-> resp, st |-> f.st]

\* ------------------------------------------------- the environment's answers
\* Records the CRM can hold for a customer name: every property set, none but
\* the name returned, the others unset (None), or the others empty.
Record(customer_name, other) ==
    [k \in Properties |-> IF k = "customer_name" THEN Str(customer_name) ELSE other]

CrmRecords(customer_name) ==
    { [k \in Properties |-> IF k = "customer_name" THEN Str(customer_name) ELSE Str(<<k>>)],
      Record(customer_name, AbsentV),
      Record(customer_name, NoneV),
      Record(customer_name, Str(<<>>)) }

\* The search is an exact match on customer_name, and a stored name is never
\* empty: an empty name matches nothing.
CrmAnswers(customer_name) ==
    {CrmError, CrmResults(<<>>)}
    \cup (IF customer_name = <<>> THEN {}
          ELSE {CrmResults(<<rec>>) : rec \in CrmRecords(customer_name)})

VoiceAnswers ==
    {VoiceError}
    \cup (IF Cardinality(DOMAIN sessions) < MaxSessions
          THEN LET id == VoiceId(Cardinality(DOMAIN sessions) + 1)
               IN  {VoiceCreated(id, JoinUrlOf(id)), VoiceCreated(id, None)}
          ELSE {})

\* the provider places a call only to a non-empty number
TwilioAnswers(to) ==
    {TwilioError}
    \cup (IF Cardinality(DOMAIN calls) < MaxCalls /\ to # <<>>
          THEN {TwilioCall(CallSidOf(Cardinality(DOMAIN calls) + 1))}
          ELSE {})

\* the message log of a session the provider knows; an id it does not know
\* is an HTTP error
TranscriptsOf(call_id) ==
    { Messages("dict", results, call_id) : results \in {"missing", "empty", "turns"} }
    \cup { Messages("list", "missing", call_id), Messages("str", "missing", call_id) }

FetchAnswers(call_id) ==
    {FetchError} \cup (IF call_id \in DOMAIN sessions THEN TranscriptsOf(call_id) ELSE {})

\* the file system: everything works, or the first operation to fail is
\* makedirs, open or the dump
FsOk == [makedirs |-> TRUE, open |-> TRUE, dump |-> TRUE]
FsAnswers == { FsOk,
               [makedirs |-> FALSE, open |-> TRUE, dump |-> TRUE],
               [makedirs |-> TRUE, open |-> FALSE, dump |-> TRUE],
               [makedirs |-> TRUE, open |-> TRUE, dump |-> FALSE] }

UnknownSid == "CA-unknown"
UnknownCallId == "v-unknown"
Statuses == {"completed", "busy", "no-answer", "failed", "answered", "ringing"}

\* what the providers hold after a request: the session and the call it created
Provision(out, voice, placed, customer_response) ==
    LET created == \E i \in DOMAIN out.st.trace : out.st.trace[i].op = "voice.create"
        dialled == \E i \in DOMAIN out.st.trace : out.st.trace[i].op = "twilio.create"
    IN  /\ sessions' = IF created /\ voice.kind = "ok"
                       THEN [id \in DOMAIN sessions \cup {voice.callId} |->
                                IF id = voice.callId
                                THEN [customer_name |-> customer_response.customer_name]
                                ELSE sessions[id]]
                       ELSE sessions
        /\ calls' = IF dialled /\ placed.kind = "ok"
                    THEN [sid \in DOMAIN calls \cup {placed.sid} |->
                             IF sid = placed.sid
                             THEN [join_url |-> voice.joinUrl]
                             ELSE calls[sid]]
                    ELSE calls

\* the request dumped a transcript into a file, and which file
Saved(out) == \E i \in DOMAIN out.st.trace :
                 out.st.trace[i].op = "json.dump" /\ out.st.trace[i].res
SavedIn(out) == out.st.trace[CHOOSE i \in DOMAIN out.st.trace :
                                 out.st.trace[i].op = "json.dump" /\ out.st.trace[i].res].arg

\* ------------------------------------------------------------------ actions
\* A request is taken up when none is being answered.
HealthCheck ==
    /\ Idle
    /\ Finish("health", <<>>, [r |-> Return([status |-> "healthy", timestamp |-> now]), st |-> Start])
    /\ UNCHANGED <<sessions, calls, now, last_saved>>

FetchContact ==
    /\ Idle
    /\ \E customer_name \in Names :
       \E api_response \in CrmAnswers(customer_name) :
           /\ Finish("fetch_contact", [customer_name |-> customer_name],
                     get_hubspot_contact(customer_name, Start, api_response, now))
           /\ UNCHANGED <<sessions, calls, now, last_saved>>

\* An answer is drawn only from a provider the request gets to call.
InitiateCall ==
    /\ Idle
    /\ \E customer_name \in Names :
       \E api_response \in CrmAnswers(customer_name) :
           LET c  == fetch_contact(customer_name, Start, api_response)
               cr == IF Raised(c.r) THEN RaiseOther ELSE create_response_object(c.r.value, now)
               to == IF Raised(cr) THEN <<>> ELSE cr.value.phone_number
           IN  \E voice \in (IF Raised(cr) THEN {VoiceError} ELSE VoiceAnswers) :
               \E placed \in (IF Falsy(voice.joinUrl) THEN {TwilioError} ELSE TwilioAnswers(to)) :
               LET out == initiate_call(customer_name, Start, api_response, voice, placed, now)
               IN  /\ Finish("initiate_call", [customer_name |-> customer_name], out)
                   /\ Provision(out, voice, placed, cr.value)
                   /\ UNCHANGED <<now, last_saved>>

CallStatus ==
    /\ Idle
    /\ \E CallSid \in DOMAIN calls \cup {UnknownSid} :
       \E status \in Statuses :
       \E fetched \in (IF status = "completed" THEN FetchAnswers(voice_call_id) ELSE {FetchError}) :
       \E fs \in (IF fetched.kind = "dict" /\ fetched.results = "turns" THEN FsAnswers ELSE {FsOk}) :
           LET out == handle_call_status(CallSid, status, Start, fetched, fs, now)
           IN  /\ Finish("call_status", [CallSid |-> CallSid, CallStatus |-> status], out)
               /\ last_saved' = IF ~Saved(out) THEN last_saved
                                ELSE IF CallSid \in DOMAIN calls
                                THEN [by |-> CallSid, name |-> SavedIn(out)]
                                ELSE NothingSaved
               /\ UNCHANGED <<sessions, calls, now>>

EndCallGeneric ==
    /\ Idle
    /\ Finish("end_call_generic", <<>>,
              [r |-> Return([message |-> "End call request received", status |-> "ok"]), st |-> Start])
    /\ UNCHANGED <<sessions, calls, now, last_saved>>

EndCall ==
    /\ Idle
    /\ \E call_sid \in DOMAIN calls \cup {UnknownSid} :
       \E accepted \in (IF call_sid \in DOMAIN calls THEN BOOLEAN ELSE {FALSE}) :
           /\ Finish("end_call", [call_sid |-> call_sid], end_call_specific(call_sid, Start, accepted))
           /\ UNCHANGED <<sessions, calls, now, last_saved>>

FetchTranscript ==
    /\ Idle
    /\ \E call_id \in DOMAIN sessions \cup {UnknownCallId} :
       \E fetched \in FetchAnswers(call_id) :
           /\ Finish("fetch_transcript", [call_id |-> call_id], get_call_transcript(call_id, Start, fetched))
           /\ UNCHANGED <<sessions, calls, now, last_saved>>

\* the response leaves the server
SendResponse ==
    /\ ~Idle
    /\ last' = NoRequest
    /\ UNCHANGED <<voice_call_id, twilio_call_id, transcription_customer_name,
                   files, sessions, calls, now, last_saved>>

\* time passes between requests
Tick ==
    /\ Idle
    /\ now < MaxClock
    /\ now' = now + 1
    /\ UNCHANGED <<voice_call_id, twilio_call_id, transcription_customer_name,
                   files, sessions, calls, last_saved, last>>

Next ==
    \/ HealthCheck
    \/ FetchContact
    \/ InitiateCall
    \/ CallStatus
    \/ EndCallGeneric
    \/ EndCall
    \/ FetchTranscript
    \/ SendResponse
    \/ Tick

Spec == Init /\ [][Next]_vars

\* --------------------------------------------------- the Normalizer alone
\* Raw property mappings handed to create_response_object: the customer name
\* and the three properties with a configured default are each absent, None,
\* empty or non-empty, and so are the remaining properties (all alike).
ValuesOf(s) == {AbsentV, NoneV, Str(<<>>), Str(s)}

RawRecords ==
    { [k \in Properties |->
          IF k = "customer_name" THEN cn
          ELSE IF k = "bank_name" THEN bn
          ELSE IF k = "secure_payment_link" THEN link
          ELSE IF k = "phone_number" THEN ph
          ELSE IF other.kind = "str" /\ other.s # <<>> THEN Str(<<k>>) ELSE other] :
      cn \in ValuesOf(<<" ", "a">>), bn \in ValuesOf(<<"bank">>),
      link \in ValuesOf(<<"link">>), ph \in ValuesOf(<<"+1">>),
      other \in ValuesOf(<<"x">>) }

\* a mapping is at hand, nothing else has happened
InitNormalizer ==
    /\ voice_call_id = EmptyStr
    /\ twilio_call_id = EmptyStr
    /\ transcription_customer_name = <<>>
    /\ files = EmptyMap
    /\ sessions = EmptyMap
    /\ calls = EmptyMap
    /\ now = 0
    /\ last_saved = NothingSaved
    /\ \E contact_data \in RawRecords :
          last = [op |-> "contact_data", args |-> contact_data, code |-> 0,
                  body |-> <<>>, exc |-> "none", trace |-> <<>>]

\* customer_data_service.create_response_object(contact_data)
Normalize ==
    /\ last.op = "contact_data"
    /\ LET r == create_response_object(last.args, now)
       IN  last' = [op |-> "create_response_object", args |-> last.args, code |-> 0,
                    body |-> r.value, exc |-> r.exc, trace |-> <<>>]
    /\ UNCHANGED <<voice_call_id, twilio_call_id, transcription_customer_name,
                   files, sessions, calls, now, last_saved>>

NextNormalizer == Normalize

SpecNormalizer == InitNormalizer /\ [][NextNormalizer]_vars

\* ------------------------------------------------------------------ claims
\* the request handled last, read from its record
IsStatusEvent  == last.op = "call_status"
IsCompleted    == IsStatusEvent /\ last.args.CallStatus = "completed"
DidIn(req, op)      == \E i \in DOMAIN req.trace : req.trace[i].op = op
AnswerIn(req, op)   == req.trace[CHOOSE i \in DOMAIN req.trace : req.trace[i].op = op].res
ArgumentIn(req, op) == req.trace[CHOOSE i \in DOMAIN req.trace : req.trace[i].op = op].arg
Ops            == [i \in DOMAIN last.trace |-> last.trace[i].op]
Did(op)        == DidIn(last, op)
Answer(op)     == AnswerIn(last, op)
Argument(op)   == ArgumentIn(last, op)
\* a failure of the file system met while saving
FsFailed       == \E i \in DOMAIN last.trace :
                     /\ last.trace[i].op \in {"os.makedirs", "open", "json.dump"}
                     /\ last.trace[i].res = FALSE
\* the transcript files this request persisted
Persisted      == {i \in DOMAIN last.trace : last.trace[i].op = "json.dump" /\ last.trace[i].res}

\* C1: handleStatusEvent never lets an exception escape: whatever the status
\* and whatever fails inside (transcript fetch, a transcript value without a
\* "results" lookup, directory creation, file write), the response is a 200
\* whose payload has a message and either a status or an error.
C1_NoExceptionEscapes ==
    IsStatusEvent =>
        /\ last.exc = "none"
        /\ last.code = 200
        /\ "message" \in DOMAIN last.body
        /\ ("status" \in DOMAIN last.body \/ "error" \in DOMAIN last.body)

\* a status event during which the transcript fetch raised an HTTP error and
\* the handler answered with an error payload
C1_Witness ==
    /\ IsCompleted
    /\ Did("voice.messages") /\ Answer("voice.messages").kind = "error"
    /\ last.code = 200
    /\ last.body = [message |-> "Error processing status", error |-> "HTTPException"]

\* C2 as stated: a completed event persists exactly one file when the
\* fetched transcript has at least one turn and none when it is empty, and an
\* empty transcript is acknowledged with status ok.
C2_Original ==
    (IsCompleted /\ Did("voice.messages") /\ Answer("voice.messages").kind = "dict") =>
        IF Answer("voice.messages").results = "turns"
        THEN Cardinality(Persisted) = 1
        ELSE Cardinality(Persisted) = 0 /\ last.body = StatusReceived

\* C2 amended: a completed event persists at most one file; when the fetched
\* transcript has at least one turn it persists exactly one file, holding that
\* transcript under the current customer name and the current second, provided
\* creating the directory, opening the file and writing it all succeed, and no
\* transcript if one of them fails; when the transcript is empty it touches no
\* file and acknowledges with status ok.
C2_Amended ==
    (IsCompleted /\ Did("voice.messages") /\ Answer("voice.messages").kind = "dict") =>
        IF Answer("voice.messages").results = "turns"
        THEN /\ Did("os.makedirs")
             /\ Cardinality(Persisted) <= 1
             /\ Cardinality(Persisted) = 1 <=> ~FsFailed
             /\ ~FsFailed =>
                   LET name == FileName(transcription_customer_name, StrfTimestamp(now))
                   IN  /\ Ops = <<"voice.messages", "os.makedirs", "open", "json.dump">>
                       /\ Argument("json.dump") = name
                       /\ name \in DOMAIN files
                       /\ files[name] = Answer("voice.messages")
             /\ FsFailed => last.trace[Len(last.trace)].res = FALSE
        ELSE /\ Ops = <<"voice.messages">>
             /\ last.body = StatusReceived

\* a completed event that fetched a transcript with turns and persisted it
C2_Witness ==
    /\ IsCompleted
    /\ Did("voice.messages") /\ Answer("voice.messages").results = "turns"
    /\ Cardinality(Persisted) = 1
    /\ last.body = StatusReceived

\* C3: a status event whose status is not "completed" issues no transcript
\* fetch (no outbound operation at all), persists no file, places no call,
\* creates no session, leaves the globals alone and answers
\* {message: "Status received", status: "ok"}.
C3_OtherStatusesDoNothing ==
    [][ (last'.op = "call_status" /\ last'.args.CallStatus # "completed") =>
            /\ last'.trace = <<>>
            /\ last'.body = StatusReceived
            /\ last'.code = 200
            /\ UNCHANGED <<files, sessions, calls, voice_call_id, twilio_call_id,
                           transcription_customer_name>> ]_vars

\* a "failed" event for a placed call was acknowledged while a session is current
C3_Witness ==
    /\ IsStatusEvent
    /\ last.args.CallStatus = "failed"
    /\ last.args.CallSid \in DOMAIN calls
    /\ voice_call_id \in DOMAIN sessions
    /\ last.body = StatusReceived

\* C4 as stated: a CRM search that succeeds with zero matching records makes
\* fetch-contact and initiate-call fail with 404; they fail with 500 when the
\* CRM call itself fails.
C4_NotFoundIs404 ==
    (last.op \in {"fetch_contact", "initiate_call"} /\ Did("crm.search")) =>
        /\ Answer("crm.search") = "empty" => last.code = 404
        /\ Answer("crm.search") = "error" => last.code = 500

\* the session created last, by the voice provider's own count
LatestSession == VoiceId(Cardinality(DOMAIN sessions))

\* C5: the current-session pair is the initial pair of empty values until a
\* createSession succeeds, and from then on the session id returned by the
\* most recent successful createSession together with the customer name
\* passed to that same call.
C5_CurrentSessionIsLatest ==
    IF DOMAIN sessions = {}
    THEN voice_call_id = EmptyStr /\ transcription_customer_name = <<>>
    ELSE /\ voice_call_id = LatestSession
         /\ voice_call_id \in DOMAIN sessions
         /\ transcription_customer_name = sessions[voice_call_id].customer_name

\* two sessions were created for different customers, and requests of every
\* other kind have been handled since
C5_Witness ==
    /\ Cardinality(DOMAIN sessions) = 2
    /\ sessions[VoiceId(1)].customer_name # sessions[VoiceId(2)].customer_name
    /\ voice_call_id = VoiceId(2)
    /\ last.op = "end_call"

\* C6: a completed event is processed against the current-session pair, that
\* of the session created last, whichever session the event's call was
\* bridged to: the transcript is fetched for that session id and, when saved,
\* saved under that session's customer name.
C6_LaterWriteWins ==
    IsCompleted =>
        /\ Ops # <<>> /\ last.trace[1].op = "voice.messages"
        /\ Argument("voice.messages") = voice_call_id
        /\ DOMAIN sessions # {} => Argument("voice.messages") = LatestSession
        /\ Did("open") =>
              /\ Argument("open").customer_name = transcription_customer_name
              /\ Argument("open").customer_name = sessions[LatestSession].customer_name

\* the completed event of the call bridged to the first session fetched and
\* saved the second session's transcript under the second customer's name
C6_Witness ==
    /\ IsCompleted
    /\ last.args.CallSid \in DOMAIN calls
    /\ calls[last.args.CallSid].join_url = JoinUrlOf(VoiceId(1))
    /\ Argument("voice.messages") = VoiceId(2)
    /\ Cardinality(Persisted) = 1
    /\ Argument("json.dump").customer_name = sessions[VoiceId(2)].customer_name
    /\ sessions[VoiceId(2)].customer_name # sessions[VoiceId(1)].customer_name
    /\ files[Argument("json.dump")].of = VoiceId(2)

\* an initiate-call request that failed after createSession had succeeded
Orphaning ==
    /\ last.op = "initiate_call"
    /\ last.code # 200
    /\ Did("voice.create")
    /\ Answer("voice.create").kind = "ok"

\* the current session is one the provider holds and no call is bridged to
CurrentIsOrphan ==
    /\ voice_call_id \in DOMAIN sessions
    /\ \A sid \in DOMAIN calls : calls[sid].join_url # JoinUrlOf(voice_call_id)

\* C7: when createSession succeeds and a later step of initiate-call fails
\* (no join URL, or the telephony provider rejects the call), the request
\* fails with an HTTP 500, no call is placed and nothing is undone: the session
\* stays with the provider, bridged to no call, and its id and customer name
\* are the current session; a completed status event that finds the current
\* session orphaned fetches that session's transcript and saves it under that
\* session's customer name.
C7_OrphanStaysCurrent ==
    /\ Orphaning =>
          /\ last.code = 500 /\ last.exc = "HTTPException"
          /\ last.trace[Len(last.trace)].op \in {"voice.create", "twilio.create"}
          /\ Did("twilio.create") => Answer("twilio.create").kind = "error"
          /\ voice_call_id = Answer("voice.create").callId
          /\ transcription_customer_name = Argument("voice.create")
          /\ CurrentIsOrphan
    /\ (IsCompleted /\ CurrentIsOrphan) =>
          /\ Argument("voice.messages") = voice_call_id
          /\ Did("open") =>
                Argument("open").customer_name = sessions[voice_call_id].customer_name

\* a completed event fetched and saved the transcript of a session that no
\* call was ever bridged to
C7_Witness ==
    /\ IsCompleted
    /\ CurrentIsOrphan
    /\ Argument("voice.messages") = voice_call_id
    /\ Cardinality(Persisted) = 1

\* C8 as stated: whatever fails while persisting (creating the directory,
\* opening the file, writing it), the completed event is acknowledged with
\* {message: "Status received", status: "ok"}.
C8_SaveIsBestEffort ==
    (IsCompleted /\ FsFailed) => last.body = StatusReceived

\* C9 as stated: an empty customer name is rejected with 400 before any
\* outbound call, on fetch-contact and on initiate-call.
C9_EmptyNameRejected ==
    (last.op \in {"fetch_contact", "initiate_call"} /\ last.args.customer_name = <<>>) =>
        /\ last.code = 400
        /\ last.trace = <<>>

\* C10 as stated: fetch-transcript answers 200 with {call_id, transcript,
\* message} whenever the provider returns a message log, and 500 only when
\* the provider call fails.
C10_TranscriptReturned ==
    last.op = "fetch_transcript" =>
        /\ Answer("voice.messages").kind # "error" =>
              /\ last.code = 200
              /\ DOMAIN last.body = {"call_id", "transcript", "message"}
        /\ last.code = 500 => Answer("voice.messages").kind = "error"

\* C11 as stated: transcripts are one file per call.  A completed event of
\* a placed call that persists a transcript leaves one file for that call and
\* takes no other call's file: when the transcript saved before was saved by
\* an event of the same call and that file is still there, this event writes
\* that very file (a repeated completed event yields no second file); when it
\* was saved by an event of another call, this event writes a different file
\* (two calls never share one file).
C11_OneFilePerCall ==
    [][ ( /\ last'.op = "call_status"
          /\ last'.args.CallStatus = "completed"
          /\ last'.args.CallSid \in DOMAIN calls
          /\ DidIn(last', "json.dump") /\ AnswerIn(last', "json.dump") ) =>
            LET sid  == last'.args.CallSid
                name == ArgumentIn(last', "json.dump")
            IN  /\ (last_saved.by = sid /\ last_saved.name \in DOMAIN files) =>
                      name = last_saved.name
                /\ last_saved.by \in DOMAIN calls \ {sid} => name # last_saved.name ]_vars

\* the outbound operation was refused or found nothing
Refused(e) == IF e.op = "crm.search" THEN e.res \in {"error", "empty"}
              ELSE IF e.op \in {"voice.create", "twilio.create"} THEN e.res.kind = "error"
              ELSE FALSE

TimesIn(req, op) == Cardinality({i \in DOMAIN req.trace : req.trace[i].op = op})

\* C12: nothing is retried.  Within one initiate-call request the CRM search,
\* the session creation and the call placement are each invoked at most once,
\* a refusal by one of them is the last outbound operation of the request and
\* the request fails; a status event of any status creates no voice session
\* and places no telephony call.
C12_NoAutomaticRetry ==
    [][ /\ last'.op = "initiate_call" =>
              /\ \A op \in {"crm.search", "voice.create", "twilio.create"} : TimesIn(last', op) <= 1
              /\ \A i \in DOMAIN last'.trace :
                    Refused(last'.trace[i]) => i = Len(last'.trace) /\ last'.code # 200
        /\ last'.op = "call_status" =>
              /\ TimesIn(last', "crm.search") = 0
              /\ TimesIn(last', "voice.create") = 0
              /\ TimesIn(last', "twilio.create") = 0
              /\ UNCHANGED <<sessions, calls>> ]_vars

\* an initiate-call request whose call placement was refused after the CRM
\* search and the session creation had succeeded
C12_Witness ==
    /\ last.op = "initiate_call"
    /\ Ops = <<"crm.search", "voice.create", "twilio.create">>
    /\ Answer("twilio.create").kind = "error"
    /\ last.code = 500

\* the fields of a CallContext
ContactFields == { "bank_name", "customer_name", "loan_type", "outstanding_amount",
                   "missed_emi_count", "emi_amount", "due_date", "proposed_months",
                   "amount", "months", "phone_number", "call_status",
                   "number_of_call_attempts", "call_lifted_time", "secure_payment_link",
                   "preferred_callback_time", "main_message", "dpd_days", "date",
                   "agent_name" }

Normalized == last.op = "create_response_object"

\* C13 as stated: whatever the raw mapping (each property absent, None, empty
\* or non-empty), the Normalizer returns a complete CallContext and never
\* raises.
C13_NormalizerNeverRaises ==
    Normalized =>
        /\ last.exc = "none"
        /\ DOMAIN last.body = ContactFields

\* part occurs in whole, token for token
Contains(whole, part) ==
    \E i \in 1..(Len(whole) - Len(part) + 1) : SubSeq(whole, i, i + Len(part) - 1) = part

\* the fields with a configured default
Defaults == [ bank_name           |-> <<DEFAULT_BANK_NAME>>,
              secure_payment_link |-> <<DEFAULT_PAYMENT_LINK>>,
              phone_number        |-> <<DESTINATION_PHONE_NUMBER>> ]

\* C14 as stated: in the CallContext the Normalizer produces, no field with a
\* configured default (bank name, payment link, phone number) is empty: it
\* holds the default when the record's value is absent or empty, and the main
\* message contains that bank name and that payment link.
C14_DefaultsFillEmpty ==
    (Normalized /\ last.exc = "none") =>
        /\ \A f \in DOMAIN Defaults :
              /\ last.body[f] # <<>>
              /\ (last.args[f].kind = "absent" \/ last.args[f] = Str(<<>>)) =>
                    last.body[f] = Defaults[f]
        /\ Contains(last.body.main_message, last.body.bank_name)
        /\ Contains(last.body.main_message, last.body.secure_payment_link)

\* C15: POST /end-call/{call_sid} always answers 200.  It asks the telephony
\* provider once to terminate the named call; when the provider accepts, the
\* answer is a success message; when it rejects, the error raised by end_call
\* is caught and the answer is an error message with status "error"; the
\* current session id, customer name and recorded call id are unchanged.
C15_EndCallAlways200 ==
    [][ last'.op = "end_call" =>
            /\ last'.code = 200 /\ last'.exc = "none"
            /\ last'.trace = <<Outbound("twilio.update", last'.args.call_sid,
                                        AnswerIn(last', "twilio.update"))>>
            /\ last'.body = IF AnswerIn(last', "twilio.update")
                            THEN [message |-> "Call ended successfully"]
                            ELSE [message |-> "Error ending call", status |-> "error"]
            /\ UNCHANGED <<voice_call_id, twilio_call_id, transcription_customer_name,
                           files, sessions, calls>> ]_vars

\* the provider rejected the termination of a placed call while a session is
\* current, and the request was answered with an error message
C15_Witness ==
    /\ last.op = "end_call"
    /\ last.args.call_sid \in DOMAIN calls
    /\ Answer("twilio.update") = FALSE
    /\ last.code = 200
    /\ last.body.status = "error"
    /\ voice_call_id \in DOMAIN sessions

\* C16: initiate-call performs its steps in the order CRM lookup,
\* normalization and script rendering, createSession, initiateCall, and a
\* failed step prevents every later one: the session is created only after
\* the CRM lookup found a contact (and for the normalized customer name), the
\* call is placed only after createSession succeeded with a non-empty join
\* endpoint, and it is bridged to that endpoint; a 200 answer reports the
\* call id, join endpoint and session id of these steps.
C16_StepsInOrder ==
    last.op = "initiate_call" =>
        /\ Ops \in { <<"crm.search">>,
                     <<"crm.search", "voice.create">>,
                     <<"crm.search", "voice.create", "twilio.create">> }
        /\ Did("voice.create") =>
              /\ Answer("crm.search") = "found"
              /\ Argument("voice.create") = Strip(last.args.customer_name)
        /\ Did("twilio.create") =>
              /\ Answer("voice.create").kind = "ok"
              /\ ~Falsy(Answer("voice.create").joinUrl)
              /\ Argument("twilio.create") = Answer("voice.create").joinUrl
        /\ last.code = 200 =>
              /\ Did("twilio.create") /\ Answer("twilio.create").kind = "ok"
              /\ last.body.call_sid = Answer("twilio.create").sid
              /\ last.body.join_url = Answer("voice.create").joinUrl
              /\ last.body.call_id = Answer("voice.create").callId

\* createSession succeeded without a join endpoint and the request stopped
\* there, for a customer name that normalization changed
C16_Witness ==
    /\ last.op = "initiate_call"
    /\ Ops = <<"crm.search", "voice.create">>
    /\ Answer("voice.create").kind = "ok"
    /\ Answer("voice.create").joinUrl = None
    /\ Argument("voice.create") # last.args.customer_name
    /\ last.code = 500

C18_FetchOnlyKnownSession ==
    [][ (last'.op = "call_status" /\ last'.args.CallStatus = "completed") =>
            /\ voice_call_id = EmptyStr => ~DidIn(last', "voice.messages")
            /\ DidIn(last', "voice.messages") =>
                  ArgumentIn(last', "voice.messages") \in DOMAIN sessions ]_vars

\* the call identifiers a status event can carry: those of the calls placed
\* and one that initiateCall never returned
CallSids == DOMAIN calls \cup {UnknownSid}

\* C19: the effect of a status event does not depend on its CallSid.  From any
\* state in which a request can be taken up, two events with the same status and different CallSid values, met
\* by the same answers of the voice provider and the file system, issue the
\* same outbound operations (the same session's transcript is fetched), leave
\* the same files and globals (the same content under the same customer name)
\* and return the same response.
C19_CallSidIsIgnored ==
    Idle =>
    \A sid1, sid2 \in CallSids :
    \A status \in Statuses :
    \A fetched \in (IF status = "completed" THEN FetchAnswers(voice_call_id) ELSE {FetchError}) :
    \A fs \in (IF fetched.kind = "dict" /\ fetched.results = "turns" THEN FsAnswers ELSE {FsOk}) :
        handle_call_status(sid1, status, Start, fetched, fs, now)
            = handle_call_status(sid2, status, Start, fetched, fs, now)

\* a completed event carrying a CallSid that initiateCall never returned was
\* processed, while a call had been placed, exactly as that call's event: it
\* fetched the current session's transcript and saved it under the current
\* customer name
C19_Witness ==
    /\ IsCompleted
    /\ last.args.CallSid = UnknownSid
    /\ twilio_call_id \in DOMAIN calls
    /\ Argument("voice.messages") = voice_call_id
    /\ Did("json.dump") /\ Answer("json.dump")
    /\ Argument("json.dump").customer_name = transcription_customer_name

\* an initiate-call request that failed at or before createSession: the CRM
\* lookup or the normalization failed, or the voice provider refused
FailedBeforeSession(req) ==
    /\ req.op = "initiate_call"
    /\ req.code # 200
    /\ ~(DidIn(req, "voice.create") /\ AnswerIn(req, "voice.create").kind = "ok")

\* C20: an initiate-call request that fails at or before createSession leaves
\* the current session id, the current customer name and the recorded
\* telephony call id unchanged (and creates no session, places no call), so a
\* later completed event meets the pair that was recorded before.
C20_EarlyFailureLeavesGlobals ==
    [][ FailedBeforeSession(last') =>
            /\ ~DidIn(last', "twilio.create")
            /\ UNCHANGED <<voice_call_id, transcription_customer_name, twilio_call_id,
                           sessions, calls, files>> ]_vars

\* a request for another customer was refused by the voice provider while the
\* session and call of an earlier customer were recorded, and they still are
C20_Witness ==
    /\ FailedBeforeSession(last)
    /\ Did("voice.create")
    /\ voice_call_id = VoiceId(1)
    /\ twilio_call_id = CallSidOf(1)
    /\ transcription_customer_name = sessions[VoiceId(1)].customer_name
    /\ Argument("voice.create") # transcription_customer_name

====
